---------------------------- MODULE Spec2Model ----------------------------
(***************************************************************************)
(* Organizational constants of the APDI Ghana site                         *)
(* (src/src/constants/site.ts): the three exports SITE, NAV_ITEMS and      *)
(* FOOTER_LINKS, and the consumers that import them.                       *)
(*                                                                         *)
(* A string is a sequence of one-character strings, so that its length,    *)
(* its prefixes and its characters can be inspected.  An object literal is *)
(* a record, an array literal a sequence.  A property the literal does not *)
(* write (`external` on most footer entries) is not a field of the record. *)
(*                                                                         *)
(* Two specifications:                                                     *)
(*   Spec         consumers import the module and read the exports;        *)
(*   AttemptSpec  consumers also attempt to write to them.                 *)
(***************************************************************************)
EXTENDS Naturals, Sequences, FiniteSets

\* Number of consumers that read the exports.
NumReaders == 2
\* Number of write attempts followed in AttemptSpec.
MaxAttempts == 2

---------------------------------------------------------------------------
(* The literals of site.ts *)

\* SITE.name: 'APDI'
SITE_name ==
    <<"A","P","D","I">>

\* SITE.fullName
SITE_fullName ==
    <<"A","s","s","o","c","i","a","t","i","o","n"," ","f","o","r"," ","t",
      "h","e"," ","P","r","o","t","e","c","t","i","o","n"," ","o","f"," ",
      "D","i","g","i","t","a","l"," ","I","n","n","o","v","a","t","i","o",
      "n">>

\* A tagline left empty.
SITE_tagline_Empty ==
    <<>>

\* SITE.tagline: 'Protecting Digital Innovation'
SITE_tagline ==
    <<"P","r","o","t","e","c","t","i","n","g"," ","D","i","g","i","t","a",
      "l"," ","I","n","n","o","v","a","t","i","o","n">>

\* SITE.url: 'https://apdigh.org'
SITE_url ==
    <<"h","t","t","p","s",":","/","/","a","p","d","i","g","h",".","o","r",
      "g">>

\* A contact address whose domain lost its top-level part: 'contact@apdigh'.
SITE_email_NoDomainDot ==
    <<"c","o","n","t","a","c","t","@","a","p","d","i","g","h">>

\* SITE.email: 'contact@apdigh.org'
SITE_email ==
    <<"c","o","n","t","a","c","t","@","a","p","d","i","g","h",".","o","r",
      "g">>

\* SITE.mission
SITE_mission ==
    <<"P","r","o","t","e","c","t","i","n","g"," ","G","h","a","n","a","'",
      "s"," ","d","i","g","i","t","a","l"," ","i","n","n","o","v","a","t",
      "i","o","n"," ","s","e","c","t","o","r"," ","b","y"," ","i","n","f",
      "o","r","m","i","n","g"," ","c","i","t","i","z","e","n","s"," ","a",
      "b","o","u","t"," ","t","e","c","h"," ","b","i","l","l","s"," ","a",
      "n","d"," ","t","h","e","i","r"," ","i","m","p","a","c","t","s"," ",
      "o","n"," ","s","t","a","r","t","u","p","s",","," ","i","n","n","o",
      "v","a","t","i","o","n",","," ","a","n","d"," ","t","h","e"," ","d",
      "i","g","i","t","a","l"," ","e","c","o","n","o","m","y",".">>

\* The social list with the Twitter url written without its scheme:
\* 'twitter.com/apdigh'.
SITE_social_SchemelessUrl ==
    <<
      [ name |->
          <<"T","w","i","t","t","e","r">>,
        icon |->
          <<"t","i"," ","t","i","-","b","r","a","n","d","-","x">>,
        url |->
          <<"t","w","i","t","t","e","r",".","c","o","m","/","a","p","d","i",
            "g","h">>,
        handle |->
          <<"@","a","p","d","i","g","h">> ],
      [ name |->
          <<"Y","o","u","T","u","b","e">>,
        icon |->
          <<"t","i"," ","t","i","-","b","r","a","n","d","-","y","o","u","t",
            "u","b","e">>,
        url |->
          <<"h","t","t","p","s",":","/","/","w","w","w",".","y","o","u","t",
            "u","b","e",".","c","o","m","/","@","a","p","d","i","g","h">>,
        handle |->
          <<"@","a","p","d","i","g","h">> ]
    >>

\* The social list with the Twitter handle written without its leading '@'.
SITE_social_BareHandle ==
    <<
      [ name |->
          <<"T","w","i","t","t","e","r">>,
        icon |->
          <<"t","i"," ","t","i","-","b","r","a","n","d","-","x">>,
        url |->
          <<"h","t","t","p","s",":","/","/","t","w","i","t","t","e","r",".",
            "c","o","m","/","a","p","d","i","g","h">>,
        handle |->
          <<"a","p","d","i","g","h">> ],
      [ name |->
          <<"Y","o","u","T","u","b","e">>,
        icon |->
          <<"t","i"," ","t","i","-","b","r","a","n","d","-","y","o","u","t",
            "u","b","e">>,
        url |->
          <<"h","t","t","p","s",":","/","/","w","w","w",".","y","o","u","t",
            "u","b","e",".","c","o","m","/","@","a","p","d","i","g","h">>,
        handle |->
          <<"a","p","d","i","g","h">> ]
    >>

\* SITE.social: Twitter, then YouTube, each with name, icon, url, handle.
SITE_social ==
    <<
      [ name |->
          <<"T","w","i","t","t","e","r">>,
        icon |->
          <<"t","i"," ","t","i","-","b","r","a","n","d","-","x">>,
        url |->
          <<"h","t","t","p","s",":","/","/","t","w","i","t","t","e","r",".",
            "c","o","m","/","a","p","d","i","g","h">>,
        handle |->
          <<"@","a","p","d","i","g","h">> ],
      [ name |->
          <<"Y","o","u","T","u","b","e">>,
        icon |->
          <<"t","i"," ","t","i","-","b","r","a","n","d","-","y","o","u","t",
            "u","b","e">>,
        url |->
          <<"h","t","t","p","s",":","/","/","w","w","w",".","y","o","u","t",
            "u","b","e",".","c","o","m","/","@","a","p","d","i","g","h">>,
        handle |->
          <<"@","a","p","d","i","g","h">> ]
    >>

\* export const SITE = { ... } as const
SITE ==
    [ name     |-> SITE_name,
      fullName |-> SITE_fullName,
      tagline  |-> SITE_tagline,
      url      |-> SITE_url,
      email    |-> SITE_email,
      mission  |-> SITE_mission,
      social   |-> SITE_social ]

\* The navigation with its last two entries swapped.
NAV_ITEMS_Reordered ==
    <<
      [ href |->
          <<"/">>,
        label |->
          <<"H","o","m","e">> ],
      [ href |->
          <<"/","a","b","o","u","t">>,
        label |->
          <<"A","b","o","u","t">> ],
      [ href |->
          <<"/","b","i","l","l","s">>,
        label |->
          <<"B","i","l","l","s">> ]
    >>

\* export const NAV_ITEMS = [ ... ] as const
NAV_ITEMS ==
    <<
      [ href |->
          <<"/">>,
        label |->
          <<"H","o","m","e">> ],
      [ href |->
          <<"/","b","i","l","l","s">>,
        label |->
          <<"B","i","l","l","s">> ],
      [ href |->
          <<"/","a","b","o","u","t">>,
        label |->
          <<"A","b","o","u","t">> ]
    >>

\* The footer with the GitHub entry's `external: true` left out.
FOOTER_LINKS_UnmarkedExternal ==
    [ quickLinks |->
        <<
          [ href |->
              <<"/","b","i","l","l","s">>,
            label |->
              <<"A","l","l"," ","B","i","l","l","s">> ],
          [ href |->
              <<"/","a","b","o","u","t">>,
            label |->
              <<"A","b","o","u","t"," ","U","s">> ]
        >>,
      resources |->
        <<
          [ href |->
              <<"h","t","t","p","s",":","/","/","g","i","t","h","u","b",".",
                "c","o","m","/","a","p","d","i","g","h","-","o","r","g","/",
                "a","p","d","i","g","h",".","o","r","g">>,
            label |->
              <<"G","i","t","H","u","b"," ","R","e","p","o","s","i","t","o",
                "r","y">> ]
        >>,
      legal |->
        <<
          [ href |->
              <<"/","a","b","o","u","t","#","t","r","a","n","s","p","a","r",
                "e","n","c","y">>,
            label |->
              <<"A","I"," ","T","r","a","n","s","p","a","r","e","n","c","y">> ]
        >> ]

\* The footer with the legal entry pointing at a route the navigation does
\* not expose: '/privacy#transparency'.
FOOTER_LINKS_DeadRoute ==
    [ quickLinks |->
        <<
          [ href |->
              <<"/","b","i","l","l","s">>,
            label |->
              <<"A","l","l"," ","B","i","l","l","s">> ],
          [ href |->
              <<"/","a","b","o","u","t">>,
            label |->
              <<"A","b","o","u","t"," ","U","s">> ]
        >>,
      resources |->
        <<
          [ href |->
              <<"h","t","t","p","s",":","/","/","g","i","t","h","u","b",".",
                "c","o","m","/","a","p","d","i","g","h","-","o","r","g","/",
                "a","p","d","i","g","h",".","o","r","g">>,
            label |->
              <<"G","i","t","H","u","b"," ","R","e","p","o","s","i","t","o",
                "r","y">>,
            external |-> TRUE ]
        >>,
      legal |->
        <<
          [ href |->
              <<"/","p","r","i","v","a","c","y","#","t","r","a","n","s","p",
                "a","r","e","n","c","y">>,
            label |->
              <<"A","I"," ","T","r","a","n","s","p","a","r","e","n","c","y">> ]
        >> ]

\* export const FOOTER_LINKS = { quickLinks, resources, legal } as const.
\* An entry written without `external` has no such field.
FOOTER_LINKS ==
    [ quickLinks |->
        <<
          [ href |->
              <<"/","b","i","l","l","s">>,
            label |->
              <<"A","l","l"," ","B","i","l","l","s">> ],
          [ href |->
              <<"/","a","b","o","u","t">>,
            label |->
              <<"A","b","o","u","t"," ","U","s">> ]
        >>,
      resources |->
        <<
          [ href |->
              <<"h","t","t","p","s",":","/","/","g","i","t","h","u","b",".",
                "c","o","m","/","a","p","d","i","g","h","-","o","r","g","/",
                "a","p","d","i","g","h",".","o","r","g">>,
            label |->
              <<"G","i","t","H","u","b"," ","R","e","p","o","s","i","t","o",
                "r","y">>,
            external |-> TRUE ]
        >>,
      legal |->
        <<
          [ href |->
              <<"/","a","b","o","u","t","#","t","r","a","n","s","p","a","r",
                "e","n","c","y">>,
            label |->
              <<"A","I"," ","T","r","a","n","s","p","a","r","e","n","c","y">> ]
        >> ]
---------------------------------------------------------------------------
(* Module state *)

VARIABLES
    store,      \* the objects the three export bindings refer to
    pc,         \* per reader: "idle", "once" (one read done), "twice"
    target,     \* per reader: the path it reads
    first,      \* per reader: what its first read of target returned
    second,     \* per reader: what its second read of target returned
    attempts,   \* number of write attempts made so far
    outcome     \* how the latest write attempt ended

vars == <<store, pc, target, first, second, attempts, outcome>>

Readers == 1..NumReaders

\* The value a reader holds before it has read anything.
Undefined == <<>>

\* Evaluation of the module: the three const bindings, each bound to the
\* object its literal constructs.
ModuleInit ==
    [ SITE |-> SITE, NAV_ITEMS |-> NAV_ITEMS, FOOTER_LINKS |-> FOOTER_LINKS ]

\* `as const` is a type assertion and is erased when the module is compiled:
\* the literals are ordinary objects, and nothing in the module freezes them.
Frozen == FALSE

\* The paths a consumer reads.
ScalarPaths ==
    { "SITE.name", "SITE.fullName", "SITE.tagline", "SITE.url", "SITE.email",
      "SITE.mission" }
ArrayPaths ==
    { "SITE.social", "NAV_ITEMS", "FOOTER_LINKS.quickLinks",
      "FOOTER_LINKS.resources", "FOOTER_LINKS.legal" }
ObjectPaths == { "SITE", "FOOTER_LINKS" }
Paths == ScalarPaths \cup ArrayPaths \cup ObjectPaths

\* Property access: the value at path p of the exports s.  The properties are
\* plain data properties (no accessor), so a read returns what is stored.
Get(s, p) ==
    CASE p = "SITE"                    -> s.SITE
      [] p = "SITE.name"               -> s.SITE.name
      [] p = "SITE.fullName"           -> s.SITE.fullName
      [] p = "SITE.tagline"            -> s.SITE.tagline
      [] p = "SITE.url"                -> s.SITE.url
      [] p = "SITE.email"              -> s.SITE.email
      [] p = "SITE.mission"            -> s.SITE.mission
      [] p = "SITE.social"             -> s.SITE.social
      [] p = "NAV_ITEMS"               -> s.NAV_ITEMS
      [] p = "FOOTER_LINKS"            -> s.FOOTER_LINKS
      [] p = "FOOTER_LINKS.quickLinks" -> s.FOOTER_LINKS.quickLinks
      [] p = "FOOTER_LINKS.resources"  -> s.FOOTER_LINKS.resources
      [] p = "FOOTER_LINKS.legal"      -> s.FOOTER_LINKS.legal

RECURSIVE Reversed(_)
Reversed(q) == IF q = <<>> THEN <<>> ELSE Append(Reversed(Tail(q)), Head(q))

\* The exports s with the array at path p replaced by q.
PutArray(s, p, q) ==
    CASE p = "SITE.social"             -> [s EXCEPT !.SITE.social = q]
      [] p = "NAV_ITEMS"               -> [s EXCEPT !.NAV_ITEMS = q]
      [] p = "FOOTER_LINKS.quickLinks" -> [s EXCEPT !.FOOTER_LINKS.quickLinks = q]
      [] p = "FOOTER_LINKS.resources"  -> [s EXCEPT !.FOOTER_LINKS.resources = q]
      [] p = "FOOTER_LINKS.legal"      -> [s EXCEPT !.FOOTER_LINKS.legal = q]

\* An array property defined as an accessor that returns the array reversed:
\* Array.prototype.reverse works in place, so every read turns the stored
\* array around.
AccessReversingInPlace(s, p) ==
    IF p \in ArrayPaths
    THEN [ value |-> Reversed(Get(s, p)),
           after |-> PutArray(s, p, Reversed(Get(s, p))) ]
    ELSE [ value |-> Get(s, p), after |-> s ]

\* An array property defined as an accessor that hands out the entries one
\* call at a time: every read takes the first entry off the stored array.
AccessShifting(s, p) ==
    IF p \in ArrayPaths /\ Get(s, p) # <<>>
    THEN [ value |-> Get(s, p), after |-> PutArray(s, p, Tail(Get(s, p))) ]
    ELSE [ value |-> Get(s, p), after |-> s ]

\* What a read of path p does: the value it returns and the exports after
\* it.  Every property of the literals is a data property, so the read
\* returns the stored value and leaves the exports as they are.
Access(s, p) ==
    [ value |-> Get(s, p), after |-> s ]

Init ==
    /\ store = ModuleInit
    /\ pc = [r \in Readers |-> "idle"]
    /\ target = [r \in Readers |-> "none"]
    /\ first = [r \in Readers |-> Undefined]
    /\ second = [r \in Readers |-> Undefined]
    /\ attempts = 0
    /\ outcome = "none"

---------------------------------------------------------------------------
(* Consumers reading the exports *)

\* Reader r reads path p for the first time.
ReadFirst(r, p) ==
    /\ pc[r] = "idle"
    /\ first' = [first EXCEPT ![r] = Access(store, p).value]
    /\ store' = Access(store, p).after
    /\ target' = [target EXCEPT ![r] = p]
    /\ pc' = [pc EXCEPT ![r] = "once"]
    /\ UNCHANGED <<second, attempts, outcome>>

\* Reader r reads the same path again, at any later point.
ReadAgain(r) ==
    /\ pc[r] = "once"
    /\ second' = [second EXCEPT ![r] = Access(store, target[r]).value]
    /\ store' = Access(store, target[r]).after
    /\ pc' = [pc EXCEPT ![r] = "twice"]
    /\ UNCHANGED <<target, first, attempts, outcome>>

\* Reader r drops what it read and starts over.
Forget(r) ==
    /\ pc[r] = "twice"
    /\ pc' = [pc EXCEPT ![r] = "idle"]
    /\ target' = [target EXCEPT ![r] = "none"]
    /\ first' = [first EXCEPT ![r] = Undefined]
    /\ second' = [second EXCEPT ![r] = Undefined]
    /\ UNCHANGED <<store, attempts, outcome>>

ReaderStep(r) ==
    \/ \E p \in Paths : ReadFirst(r, p)
    \/ ReadAgain(r)
    \/ Forget(r)

Next == \E r \in Readers : ReaderStep(r)

Spec == Init /\ [][Next]_vars

---------------------------------------------------------------------------
(* Consumers attempting to write to the exports *)

\* The string a write attempt stores: 'x'.
Replacement == <<"x">>

\* The properties an attempt assigns to, one at each nesting depth.
AssignPaths ==
    { "SITE.name", "SITE.social[0].handle", "NAV_ITEMS[0].href",
      "FOOTER_LINKS.legal[0].href" }

\* The attempts: `<path> = 'x'`, `<array>.reverse()`, `<array>.pop()`.
Attempts ==
    [kind : {"assign"}, path : AssignPaths]
      \cup [kind : {"reverse", "pop"}, path : ArrayPaths]

\* The exports s after `<path> = v` on ordinary (unfrozen) objects.  An
\* assignment to an index the array no longer has leaves the strings alone.
Assign(s, p, v) ==
    CASE p = "SITE.name" -> [s EXCEPT !.SITE.name = v]
      [] p = "SITE.social[0].handle" ->
            IF s.SITE.social = <<>> THEN s
            ELSE [s EXCEPT !.SITE.social[1].handle = v]
      [] p = "NAV_ITEMS[0].href" ->
            IF s.NAV_ITEMS = <<>> THEN s
            ELSE [s EXCEPT !.NAV_ITEMS[1].href = v]
      [] p = "FOOTER_LINKS.legal[0].href" ->
            IF s.FOOTER_LINKS.legal = <<>> THEN s
            ELSE [s EXCEPT !.FOOTER_LINKS.legal[1].href = v]

\* What attempt a does to ordinary (unfrozen) objects at run time.
Apply(s, a) ==
    CASE a.kind = "assign"  -> Assign(s, a.path, Replacement)
      [] a.kind = "reverse" -> PutArray(s, a.path, Reversed(Get(s, a.path)))
      [] a.kind = "pop" ->
            LET q == Get(s, a.path)
            IN  IF q = <<>> THEN s
                ELSE PutArray(s, a.path, SubSeq(q, 1, Len(q) - 1))

\* An attempt written against the exports' own types: `as const` makes every
\* property readonly and every array a readonly tuple, so the type checker
\* rejects the statement (TS2540, TS2339) and it never runs.
CheckedWrite(a) ==
    /\ attempts < MaxAttempts
    /\ attempts' = attempts + 1
    /\ outcome' = "rejected"
    /\ UNCHANGED <<store, pc, target, first, second>>

\* An attempt the type checker does not see as a write to a readonly
\* property: through `any`, through an alias of a mutable type, through
\* Object.assign, or from a consumer that is not type-checked.  It runs: on a
\* frozen object a strict-mode write throws, on an ordinary object it lands.
UncheckedWrite(a) ==
    /\ attempts < MaxAttempts
    /\ attempts' = attempts + 1
    /\ IF Frozen
       THEN /\ outcome' = "threw"
            /\ UNCHANGED store
       ELSE /\ outcome' = "written"
            /\ store' = Apply(store, a)
    /\ UNCHANGED <<pc, target, first, second>>

\* An attempt to rebind an export (`SITE = ...`): an import is a read-only
\* binding of a const, so the assignment throws.
Rebind(e) ==
    /\ attempts < MaxAttempts
    /\ attempts' = attempts + 1
    /\ outcome' = "threw"
    /\ UNCHANGED <<store, pc, target, first, second>>

WriterStep ==
    \/ \E a \in Attempts : CheckedWrite(a)
    \/ \E a \in Attempts : UncheckedWrite(a)
    \/ \E e \in DOMAIN ModuleInit : Rebind(e)

AttemptNext == Next \/ WriterStep

AttemptSpec == Init /\ [][AttemptNext]_vars

---------------------------------------------------------------------------
(* Predicates on strings *)

Lower == { "a","b","c","d","e","f","g","h","i","j","k","l","m",
           "n","o","p","q","r","s","t","u","v","w","x","y","z" }
Upper == { "A","B","C","D","E","F","G","H","I","J","K","L","M",
           "N","O","P","Q","R","S","T","U","V","W","X","Y","Z" }
Digit == { "0","1","2","3","4","5","6","7","8","9" }
Alpha == Lower \cup Upper
AlphaNum == Alpha \cup Digit

Chars(s) == { s[i] : i \in 1..Len(s) }

StartsWith(s, prefix) ==
    /\ Len(s) >= Len(prefix)
    /\ SubSeq(s, 1, Len(prefix)) = prefix

\* A host name: labels of letters, digits and '-', separated by single dots.
IsHost(h) ==
    /\ h # <<>>
    /\ Chars(h) \subseteq AlphaNum \cup {"-", "."}
    /\ h[1] \in AlphaNum
    /\ h[Len(h)] \in AlphaNum
    /\ \A i \in 1..(Len(h) - 1) : ~(h[i] = "." /\ h[i + 1] = ".")

\* A scheme: a letter, then letters, digits, '+', '-' or '.'.
IsScheme(c) ==
    /\ c # <<>>
    /\ c[1] \in Alpha
    /\ Chars(c) \subseteq AlphaNum \cup {"+", "-", "."}

\* The authority of the text after "://": up to the first '/', '?' or '#'.
Authority(rest) ==
    LET stops == { i \in 1..Len(rest) : rest[i] \in {"/", "?", "#"} }
        end   == IF stops = {} THEN Len(rest)
                 ELSE (CHOOSE i \in stops : \A j \in stops : i <= j) - 1
    IN  SubSeq(rest, 1, end)

\* An absolute URL: a scheme, "://", and a host.
IsAbsoluteUrl(s) ==
    \E i \in 1..Len(s) :
        /\ i + 2 <= Len(s)
        /\ SubSeq(s, i, i + 2) = <<":", "/", "/">>
        /\ IsScheme(SubSeq(s, 1, i - 1))
        /\ IsHost(Authority(SubSeq(s, i + 3, Len(s))))

\* An email address: a non-empty local part without blanks, a single '@',
\* and a host containing a dot.
IsEmail(s) ==
    LET ats == { i \in 1..Len(s) : s[i] = "@" }
    IN  /\ Cardinality(ats) = 1
        /\ LET at     == CHOOSE i \in ats : TRUE
               local  == SubSeq(s, 1, at - 1)
               domain == SubSeq(s, at + 1, Len(s))
           IN  /\ local # <<>>
               /\ " " \notin Chars(local)
               /\ IsHost(domain)
               /\ "." \in Chars(domain)

\* A path with its '#fragment' suffix removed.
StripFragment(s) ==
    LET hashes == { i \in 1..Len(s) : s[i] = "#" }
    IN  IF hashes = {} THEN s
        ELSE SubSeq(s, 1, (CHOOSE i \in hashes : \A j \in hashes : i <= j) - 1)

\* A footer entry is external when it has `external` and it is true.
IsExternal(e) == "external" \in DOMAIN e /\ e.external = TRUE

FooterGroups == { "quickLinks", "resources", "legal" }

\* The footer entries of all three groups of the exports s.
FooterEntries(s) ==
    UNION { { s.FOOTER_LINKS[g][i] : i \in 1..Len(s.FOOTER_LINKS[g]) } :
            g \in FooterGroups }

\* The values reader r's reads of its target have returned so far.
Returned(r) ==
    CASE pc[r] = "idle"  -> {}
      [] pc[r] = "once"  -> { first[r] }
      [] pc[r] = "twice" -> { first[r], second[r] }

HasRead(r, p) == pc[r] # "idle" /\ target[r] = p

---------------------------------------------------------------------------
(* Properties *)

\* C1: after any sequence of reads and attempted writes by consumers, the
\* three exported structures equal their initial literal values.
C1_ExportsKeepInitialValues ==
    /\ store.SITE = SITE
    /\ store.NAV_ITEMS = NAV_ITEMS
    /\ store.FOOTER_LINKS = FOOTER_LINKS

\* C2: in every FOOTER_LINKS group, an entry with external true has an
\* absolute URL as href, and an entry with external false or absent has an
\* href starting with '/'.
C2_FooterHrefMatchesExternal ==
    \A g \in FooterGroups :
        \A i \in 1..Len(store.FOOTER_LINKS[g]) :
            LET e == store.FOOTER_LINKS[g][i]
            IN  IF IsExternal(e)
                THEN IsAbsoluteUrl(e.href)
                ELSE StartsWith(e.href, <<"/">>)

\* A reader holds the footer: it has an external entry with an absolute URL
\* and an entry without `external` whose href starts with '/'.
C2_Witness ==
    \E r \in Readers :
        /\ HasRead(r, "FOOTER_LINKS")
        /\ \E e \in FooterEntries([FOOTER_LINKS |-> first[r]]) :
              IsExternal(e) /\ IsAbsoluteUrl(e.href)
        /\ \E e \in FooterEntries([FOOTER_LINKS |-> first[r]]) :
              "external" \notin DOMAIN e /\ StartsWith(e.href, <<"/">>)

SameSequence(x, y) ==
    /\ Len(x) = Len(y)
    /\ \A i \in 1..Len(x) : x[i] = y[i]

C4_ReadersSeeInitialValues ==
    /\ store = ModuleInit
    /\ \A r \in Readers :
          /\ \A x \in Returned(r) : x = Get(ModuleInit, target[r])
          /\ ENABLED ReaderStep(r)

\* Two readers are in the middle of reading the same array at the same time.
C4_Witness ==
    \E r1, r2 \in Readers :
        /\ r1 # r2
        /\ pc[r1] = "once" /\ pc[r2] = "once"
        /\ target[r1] = target[r2]
        /\ target[r1] \in ArrayPaths

\* C5: NAV_ITEMS has exactly 3 entries, '/', '/bills', '/about' in this
\* order, labelled 'Home', 'Bills', 'About'; so every href starts with '/'
\* and every label is non-empty.
C5_NavItems ==
    LET nav == store.NAV_ITEMS
    IN  /\ Len(nav) = 3
        /\ nav[1].href = <<"/">>
        /\ nav[2].href = <<"/","b","i","l","l","s">>
        /\ nav[3].href = <<"/","a","b","o","u","t">>
        /\ nav[1].label = <<"H","o","m","e">>
        /\ nav[2].label = <<"B","i","l","l","s">>
        /\ nav[3].label = <<"A","b","o","u","t">>
        /\ \A i \in 1..Len(nav) :
              StartsWith(nav[i].href, <<"/">>) /\ nav[i].label # <<>>

\* A reader holds the navigation, three entries long.
C5_Witness ==
    \E r \in Readers : HasRead(r, "NAV_ITEMS") /\ Len(first[r]) = 3

\* C6: every SITE.social entry has an absolute URL (scheme and host) as url
\* and a non-empty handle.
C6_SocialUrlAndHandle ==
    \A i \in 1..Len(store.SITE.social) :
        /\ IsAbsoluteUrl(store.SITE.social[i].url)
        /\ store.SITE.social[i].handle # <<>>

\* A reader holds the social list, and it has entries with a url.
C6_Witness ==
    \E r \in Readers :
        /\ HasRead(r, "SITE.social")
        /\ first[r] # <<>>
        /\ \A i \in 1..Len(first[r]) : IsAbsoluteUrl(first[r][i].url)

\* C7: SITE.social has exactly 2 entries, named 'Twitter' and 'YouTube', and
\* each handle is non-empty and starts with '@'.
C7_SocialEntries ==
    LET social == store.SITE.social
    IN  /\ Len(social) = 2
        /\ social[1].name = <<"T","w","i","t","t","e","r">>
        /\ social[2].name = <<"Y","o","u","T","u","b","e">>
        /\ \A i \in 1..Len(social) :
              social[i].handle # <<>> /\ Head(social[i].handle) = "@"

\* A reader holds the whole of SITE, with its two social entries.
C7_Witness ==
    \E r \in Readers :
        /\ HasRead(r, "SITE")
        /\ Len(first[r].social) = 2
        /\ StartsWith(first[r].social[2].handle, <<"@">>)

\* C8: SITE.url is an absolute URL (scheme and host) and SITE.email is an
\* email address: non-empty local part, a single '@', a domain with a dot.
C8_UrlAndEmail ==
    /\ IsAbsoluteUrl(store.SITE.url)
    /\ IsEmail(store.SITE.email)

\* One reader holds SITE.url while another holds SITE.email.
C8_Witness ==
    \E r1, r2 \in Readers :
        /\ HasRead(r1, "SITE.url") /\ IsAbsoluteUrl(first[r1])
        /\ HasRead(r2, "SITE.email") /\ IsEmail(first[r2])

\* C9: every string field of SITE, of every SITE.social entry, of every
\* NAV_ITEMS entry and of every FOOTER_LINKS entry has length at least 1.
C9_StringsNonEmpty ==
    /\ \A f \in {"name", "fullName", "tagline", "url", "email", "mission"} :
          Len(store.SITE[f]) >= 1
    /\ \A i \in 1..Len(store.SITE.social) :
          \A f \in {"name", "icon", "url", "handle"} :
              Len(store.SITE.social[i][f]) >= 1
    /\ \A i \in 1..Len(store.NAV_ITEMS) :
          \A f \in {"href", "label"} : Len(store.NAV_ITEMS[i][f]) >= 1
    /\ \A e \in FooterEntries(store) :
          \A f \in {"href", "label"} : Len(e[f]) >= 1

\* A reader holds the tagline, and it has characters.
C9_Witness ==
    \E r \in Readers : HasRead(r, "SITE.tagline") /\ Len(first[r]) >= 1

\* C10: every FOOTER_LINKS entry that is not marked external has an href
\* that, with any '#fragment' removed, is the href of a NAV_ITEMS entry.
C10_InternalFooterInNavRoutes ==
    \A e \in FooterEntries(store) :
        ~IsExternal(e) =>
            \E j \in 1..Len(store.NAV_ITEMS) :
                StripFragment(e.href) = store.NAV_ITEMS[j].href

\* A reader holds the legal group, whose entry has a fragment that is cut.
C10_Witness ==
    \E r \in Readers :
        /\ HasRead(r, "FOOTER_LINKS.legal")
        /\ \E i \in 1..Len(first[r]) :
              /\ ~IsExternal(first[r][i])
              /\ StripFragment(first[r][i].href) # first[r][i].href

=============================================================================
